---- MODULE Spec2Model ----
(***************************************************************************)
(* Model of the embedding cache (src/src/cache_manager.py), the embedder   *)
(* front end (src/src/embedder.py), the document loader (src/src/utils.py) *)
(* and the search engine (src/src/search_engine.py).                       *)
(*                                                                         *)
(* Representation choices                                                  *)
(*  - A text is a sequence of one-character strings.                       *)
(*  - A numpy array is a record [dtype, data]; dtype is the item size in   *)
(*    bytes (2 = float16, 4 = float32, 8 = float64).                       *)
(*  - A byte string is a sequence of half-words (2 bytes each); the        *)
(*    half-word <<x, w, k>> is the k-th 2-byte slice of the w-byte         *)
(*    encoding of the number x.                                            *)
(*  - Real numbers are fixed point with One standing for 1.0; the vectors  *)
(*    the embedding model produces are chosen so that L2 normalisation is  *)
(*    exact in this representation.                                        *)
(*  - Python's None is the empty sequence, a present value x is <<x>>.     *)
(*  - Sequences are 1-based: Python index i is position i + 1 here; the    *)
(*    FAISS padding label -1 is kept as -1.                                *)
(***************************************************************************)
EXTENDS Integers, Sequences, FiniteSets, TLC

VARIABLES cache, use_faiss, documents, doc_id_to_idx, embeddings,
          faiss_index, index_built, last, search_engine, threads

\* cache         the rows of table embeddings_cache (doc_id, embedding, hash)
\* use_faiss     SearchEngine.use_faiss (use_faiss and FAISS_AVAILABLE)
\* documents     SearchEngine.documents
\* doc_id_to_idx SearchEngine.doc_id_to_idx
\* embeddings    SearchEngine.embeddings: None or the matrix, a sequence of rows
\* faiss_index   SearchEngine.faiss_index: None or the vectors added to it
\* index_built   history: build_vector_index has completed at least once
\* last          history: the last call, its arguments, error and result
\* search_engine api.search_engine: None until set_search_engine has run
\* threads       the callers inside save_embedding or check_cache: for each
\*               its position, its arguments and its local variables

vars == <<cache, use_faiss, documents, doc_id_to_idx, embeddings,
          faiss_index, index_built, last, search_engine, threads>>

engine_vars == <<use_faiss, documents, doc_id_to_idx, embeddings,
                 faiss_index, index_built>>

aux_vars == <<search_engine, threads>>

(***************************************************************************)
(* Bounds of the model                                                     *)
(***************************************************************************)
\* longest vector handed directly to save_embedding
MaxVecLen == 2
\* most files the data directory holds at once
MaxFiles == 2
\* largest top_k passed to search
MaxTopK == 2
\* longest keyword list handed directly to compute_overlap
MaxKeywords == 2

None == <<>>
Some(x) == <<x>>

\* the record of a call: the operation, its arguments, the error it raised
\* ("none" when it returned) and what it returned
Call(op, args, error, result) ==
  [op |-> op, args |-> args, error |-> error, result |-> result]

(***************************************************************************)
(* Generic helpers                                                         *)
(***************************************************************************)
RECURSIVE Flatten(_)
Flatten(ss) == IF ss = <<>> THEN <<>> ELSE Head(ss) \o Flatten(Tail(ss))

RECURSIVE SumSeq(_)
SumSeq(s) == IF s = <<>> THEN 0 ELSE Head(s) + SumSeq(Tail(s))

Reverse(s) == [i \in 1..Len(s) |-> s[Len(s) + 1 - i]]

\* Python's s[:k] for any integer k (negative k drops the last -k elements)
SliceTo(s, k) ==
  LET m == IF k >= 0 THEN (IF k < Len(s) THEN k ELSE Len(s))
           ELSE (IF Len(s) + k > 0 THEN Len(s) + k ELSE 0)
  IN  SubSeq(s, 1, m)

Permutations1(n) ==
  {p \in [1..n -> 1..n] : \A i, j \in 1..n : i # j => p[i] # p[j]}

(***************************************************************************)
(* Text: str.lower, and the digest of compute_hash                         *)
(***************************************************************************)
Chars == {"a", "b", "A", " ", "<", ">"}

LowerChar(c) == IF c = "A" THEN "a" ELSE c
lower(text) == [i \in 1..Len(text) |-> LowerChar(text[i])]

CharCode(c) ==
  CASE c = "a" -> 1 [] c = "b" -> 2 [] c = "A" -> 3
    [] c = " " -> 4 [] c = "<" -> 5 [] c = ">" -> 6

\* hashlib.sha256(text.encode('utf-8')).hexdigest(): a deterministic digest
\* of the exact characters, here the positional code of the text, which is
\* collision free on the texts of the model.
RECURSIVE compute_hash(_)
compute_hash(text) ==
  IF text = <<>> THEN 0
  ELSE compute_hash(SubSeq(text, 1, Len(text) - 1)) * 7
         + CharCode(text[Len(text)])

(***************************************************************************)
(* numpy: ndarray.tobytes and np.frombuffer(..., dtype=np.float32)         *)
(***************************************************************************)
ItemSizes == {2, 4, 8}

ItemBytes(x, w) == [k \in 1..(w \div 2) |-> <<x, w, k>>]

tobytes(arr) ==
  Flatten([i \in 1..Len(arr.data) |-> ItemBytes(arr.data[i], arr.dtype)])

\* one float32 read from two consecutive half-words: the stored number when
\* they are the two halves of one float32 item, otherwise the bits of some
\* other encoding read as a float32 (-1 stands for that value)
DecodeF4(h1, h2) ==
  IF h1[2] = 4 /\ h2[2] = 4 /\ h1[3] = 1 /\ h2[3] = 2 /\ h1[1] = h2[1]
  THEN h1[1] ELSE -1

\* np.frombuffer raises ValueError when the buffer size is not a multiple
\* of the element size (4 bytes = 2 half-words)
frombuffer(blob) ==
  IF Len(blob) % 2 # 0
  THEN [error |-> "ValueError", value |-> None]
  ELSE [error |-> "none",
        value |-> Some([dtype |-> 4,
                        data  |-> [i \in 1..(Len(blob) \div 2) |->
                                     DecodeF4(blob[2 * i - 1], blob[2 * i])]])]

(***************************************************************************)
(* CacheManager                                                            *)
(***************************************************************************)
\* an INSERT that keeps the earlier row of the same doc_id
InsertOrReplace_mut(table, row) == table \cup {row}

\* INSERT OR REPLACE on a table whose PRIMARY KEY is doc_id

InsertOrReplace(table, row) ==
  {r \in table : r.doc_id # row.doc_id} \cup {row}

\* the table after save_embedding(doc_id, text, embedding); the updated_at
\* column, which no operation reads back to decide anything, is left out
save_embedding(table, doc_id, text, embedding) ==
  InsertOrReplace(table, [doc_id    |-> doc_id,
                          embedding |-> tobytes(embedding),
                          hash      |-> compute_hash(text)])

\* the outcome of check_cache(doc_id, text, embedding_dim)
check_cache(table, doc_id, text, embedding_dim) ==
  LET current_hash == compute_hash(text)
      rows == {r \in table : r.doc_id = doc_id}
  IN  IF rows = {} THEN [error |-> "none", value |-> None]
      ELSE LET result == CHOOSE r \in rows : TRUE
           IN  IF result.hash # current_hash
               THEN [error |-> "none", value |-> None]
               ELSE LET decoded == frombuffer(result.embedding)
                    IN  IF decoded.error # "none" THEN decoded
                        ELSE IF Len(decoded.value[1].data) # embedding_dim
                             THEN [error |-> "none", value |-> None]
                             ELSE decoded

\* a DELETE without its WHERE clause
delete_cache_entry_mut(table, doc_id) == {}

\* DELETE FROM embeddings_cache WHERE doc_id = ?
delete_cache_entry(table, doc_id) == {r \in table : r.doc_id # doc_id}

clear_cache(table) == {}

\* get_cache_stats: SELECT COUNT(*); the two size fields are the size of the
\* database file as the file system reports it, which the model does not hold
get_cache_stats(table) == [total_cached_documents |-> Cardinality(table)]

\* get_all_cached_embeddings: a dict from doc_id to the hash of its row
\* (and its updated_at, left out as in save_embedding)
get_all_cached_embeddings(table) ==
  [d \in {r.doc_id : r \in table} |->
     [hash |-> (CHOOSE r \in table : r.doc_id = d).hash]]

\* an _init_database that creates the table anew
_init_database_mut(table) == {}

\* _init_database: CREATE TABLE IF NOT EXISTS keeps an existing table
_init_database(table) == table

(***************************************************************************)
(* utils.py: clean_text, extract_keywords, compute_overlap, load_text_files*)
(***************************************************************************)
IndexOf(text, c, from) ==
  LET hits == {i \in from..Len(text) : text[i] = c}
  IN  IF hits = {} THEN 0 ELSE CHOOSE i \in hits : \A j \in hits : i <= j

\* re.sub('<.*?>', '', text): every leftmost, shortest "<" ... ">" is removed
RECURSIVE remove_html_tags(_)
remove_html_tags(text) ==
  LET i == IndexOf(text, "<", 1)
      j == IF i = 0 THEN 0 ELSE IndexOf(text, ">", i + 1)
  IN  IF i = 0 \/ j = 0 THEN text
      ELSE SubSeq(text, 1, i - 1) \o remove_html_tags(SubSeq(text, j + 1, Len(text)))

\* re.sub(r'\s+', ' ', text): runs of white space become one space
RECURSIVE CollapseSpaces(_)
CollapseSpaces(text) ==
  IF Len(text) <= 1 THEN text
  ELSE IF text[1] = " " /\ text[2] = " " THEN CollapseSpaces(Tail(text))
       ELSE <<text[1]>> \o CollapseSpaces(Tail(text))

RECURSIVE strip(_)
strip(text) ==
  IF text = <<>> THEN text
  ELSE IF Head(text) = " " THEN strip(Tail(text))
  ELSE IF text[Len(text)] = " " THEN strip(SubSeq(text, 1, Len(text) - 1))
  ELSE text

clean_text(text) ==
  IF text = <<>> THEN <<>>
  ELSE strip(CollapseSpaces(remove_html_tags(lower(text))))

IsAlnum(c) == c \in {"a", "b"}

\* re.findall(r'\b[a-z0-9]+\b', text): the maximal runs of [a-z0-9]
RECURSIVE FindWords(_, _)
FindWords(text, word) ==
  IF text = <<>> THEN (IF word = <<>> THEN <<>> ELSE <<word>>)
  ELSE IF IsAlnum(Head(text)) THEN FindWords(Tail(text), Append(word, Head(text)))
  ELSE (IF word = <<>> THEN <<>> ELSE <<word>>) \o FindWords(Tail(text), <<>>)

extract_keywords(text, min_length) ==
  SelectSeq(FindWords(lower(text), <<>>), LAMBDA w : Len(w) >= min_length)

\* ord(c): the code point of a character
Ord(c) ==
  CASE c = " " -> 32 [] c = "<" -> 60 [] c = ">" -> 62
    [] c = "A" -> 65 [] c = "a" -> 97 [] c = "b" -> 98

\* str < str: lexicographic by code point
RECURSIVE WordLess(_, _)
WordLess(u, v) ==
  IF v = <<>> THEN FALSE
  ELSE IF u = <<>> THEN TRUE
  ELSE IF Ord(Head(u)) # Ord(Head(v)) THEN Ord(Head(u)) < Ord(Head(v))
  ELSE WordLess(Tail(u), Tail(v))

RECURSIVE sorted(_)
sorted(S) ==
  IF S = {} THEN <<>>
  ELSE LET m == CHOOSE w \in S : \A o \in S \ {w} : WordLess(w, o)
       IN  <<m>> \o sorted(S \ {m})

\* round(x / y, 3) in thousandths; 1000 * x / y lies exactly half way between
\* two thousandths only when 16 divides y, which no keyword set here reaches
RoundRatio(x, y) == (2000 * x + y) \div (2 * y)

\* a compute_overlap that intersects the lists, not the sets
compute_overlap_mut(query_keywords, doc_keywords) ==
  LET query_set == {query_keywords[i] : i \in 1..Len(query_keywords)}
      doc_set   == {doc_keywords[i] : i \in 1..Len(doc_keywords)}
      overlap   == SelectSeq(query_keywords, LAMBDA w : w \in doc_set)
  IN  [overlapping_keywords |-> sorted(query_set \cap doc_set),
       overlap_count        |-> Len(overlap),
       overlap_ratio        |-> IF Cardinality(query_set) > 0
                                THEN RoundRatio(Len(overlap), Cardinality(query_set))
                                ELSE 0,
       query_keyword_count  |-> Cardinality(query_set),
       doc_keyword_count    |-> Cardinality(doc_set)]

compute_overlap(query_keywords, doc_keywords) ==
  LET query_set == {query_keywords[i] : i \in 1..Len(query_keywords)}
      doc_set   == {doc_keywords[i] : i \in 1..Len(doc_keywords)}
      overlap   == query_set \cap doc_set
  IN  [overlapping_keywords |-> sorted(overlap),
       overlap_count        |-> Cardinality(overlap),
       overlap_ratio        |-> IF Cardinality(query_set) > 0
                                THEN RoundRatio(Cardinality(overlap), Cardinality(query_set))
                                ELSE 0,
       query_keyword_count  |-> Cardinality(query_set),
       doc_keyword_count    |-> Cardinality(doc_set)]

\* the data directory: Path(directory).rglob("*.txt") lists files of the
\* directory and of its sub-directories, so two files can share a stem
Paths == <<"sub/x.txt", "x.txt", "y.txt">>

Stem(path) == IF path = "y.txt" THEN "y" ELSE "x"
Name(path) == IF path = "y.txt" THEN "y.txt" ELSE "x.txt"

\* what each file of the directory may hold
RawContents(path) ==
  CASE path = "sub/x.txt" -> {<<"A">>}
    [] path = "x.txt"     -> {<<"b">>, <<"<", ">", " ">>}
    [] path = "y.txt"     -> {<<"A">>}

RECURSIVE Ascending(_)
Ascending(S) ==
  IF S = {} THEN <<>>
  ELSE LET m == CHOOSE i \in S : \A j \in S : i <= j
       IN  <<m>> \o Ascending(S \ {m})

\* the states of the data directory, each as rglob lists it
Listings ==
  UNION {{[i \in 1..Cardinality(S) |->
             [filepath    |-> Paths[Ascending(S)[i]],
              raw_content |-> c[Ascending(S)[i]]]] :
          c \in {f \in [S -> UNION {RawContents(Paths[k]) : k \in S}] :
                   \A k \in S : f[k] \in RawContents(Paths[k])}} :
         S \in {T \in SUBSET (1..Len(Paths)) : Cardinality(T) <= MaxFiles}}

load_text_files(listing) ==
  [i \in 1..Len(listing) |->
     [doc_id         |-> Stem(listing[i].filepath),
      filepath       |-> listing[i].filepath,
      filename       |-> Name(listing[i].filepath),
      raw_content    |-> listing[i].raw_content,
      content        |-> clean_text(listing[i].raw_content),
      length         |-> Len(listing[i].raw_content),
      cleaned_length |-> Len(clean_text(listing[i].raw_content))]]

get_text_preview(text, max_length) ==
  IF Len(text) <= max_length THEN text
  ELSE SubSeq(text, 1, max_length) \o <<".", ".", ".">>

(***************************************************************************)
(* Embedder                                                                *)
(***************************************************************************)
\* fixed-point representation of 1.0
One == 5

\* SentenceTransformer.get_sentence_embedding_dimension()
get_embedding_dimension == 2

\* SentenceTransformer.encode: the external model, a fixed function of the
\* text it is given
Encode(text) ==
  CASE text = <<"a">> -> <<3, 4>>
    [] text = <<"b">> -> <<8, 6>>
    [] text = <<" ">> -> <<5, 0>>
    [] OTHER          -> <<0, 5>>

embed_text(text) ==
  IF text = <<>>
  THEN [error |-> "EmptyText", value |-> None]
  ELSE [error |-> "none",
        value |-> Some([dtype |-> 4, data |-> Encode(lower(text))])]

ISqrt(n) == CHOOSE r \in 0..n : r * r <= n /\ (r + 1) * (r + 1) > n

Dot(u, v) == SumSeq([i \in 1..Len(u) |-> u[i] * v[i]])

\* np.linalg.norm(row)
Norm(row) == ISqrt(Dot(row, row))

normalize_embeddings(matrix) ==
  [i \in 1..Len(matrix) |->
     LET norms == IF Norm(matrix[i]) = 0 THEN One ELSE Norm(matrix[i])
     IN  [j \in 1..Len(matrix[i]) |-> (matrix[i][j] * One) \div norms]]

(***************************************************************************)
(* SearchEngine.generate_embeddings: the loop over the documents           *)
(***************************************************************************)
\* a failure of the database under the cache: the sqlite3 call made by
\* check_cache or by save_embedding for document number "at" raises
\* OperationalError; NoFault is a database that works
NoFault == [at |-> 0, call |-> "none"]
Faults ==
  {NoFault} \cup {[at |-> k, call |-> c] :
                    k \in 1..MaxFiles, c \in {"check_cache", "save_embedding"}}

\* a loop that goes on to the next document when save_embedding raises
RECURSIVE GenerateLoopIO_mut(_, _, _, _, _, _, _, _)
GenerateLoopIO_mut(docs, idx, table, embeddings_list, cache_hits, cache_misses, force_regenerate, fault) ==
  IF idx > Len(docs)
  THEN [error |-> "none", table |-> table, embeddings_list |-> embeddings_list,
        cache_hits |-> cache_hits, cache_misses |-> cache_misses]
  ELSE
    LET doc_id  == docs[idx].doc_id
        content == docs[idx].content
        cached  == check_cache(table, doc_id, content, get_embedding_dimension)
        fresh   == embed_text(content)
        failed(e) == [error |-> e, table |-> table,
                      embeddings_list |-> embeddings_list,
                      cache_hits |-> cache_hits, cache_misses |-> cache_misses]
    IN  IF ~force_regenerate /\ fault = [at |-> idx, call |-> "check_cache"]
        THEN failed("OperationalError")
        ELSE IF ~force_regenerate /\ cached.error # "none" THEN failed(cached.error)
        ELSE IF ~force_regenerate /\ cached.value # None
        THEN GenerateLoopIO_mut(docs, idx + 1, table,
                                Append(embeddings_list, cached.value[1].data),
                                cache_hits + 1, cache_misses, force_regenerate, fault)
        ELSE IF fresh.error # "none" THEN failed(fresh.error)
        ELSE GenerateLoopIO_mut(docs, idx + 1,
                                IF fault = [at |-> idx, call |-> "save_embedding"]
                                THEN table
                                ELSE save_embedding(table, doc_id, content, fresh.value[1]),
                                Append(embeddings_list, fresh.value[1].data),
                                cache_hits, cache_misses + 1, force_regenerate, fault)

\* the loop of generate_embeddings from document idx on: no call in it is
\* inside a try, so the first exception ends the loop and the call
RECURSIVE GenerateLoopIO(_, _, _, _, _, _, _, _)
GenerateLoopIO(docs, idx, table, embeddings_list, cache_hits, cache_misses, force_regenerate, fault) ==
  IF idx > Len(docs)
  THEN [error |-> "none", table |-> table, embeddings_list |-> embeddings_list,
        cache_hits |-> cache_hits, cache_misses |-> cache_misses]
  ELSE
    LET doc_id  == docs[idx].doc_id
        content == docs[idx].content
        cached  == check_cache(table, doc_id, content, get_embedding_dimension)
        fresh   == embed_text(content)
        failed(e) == [error |-> e, table |-> table,
                      embeddings_list |-> embeddings_list,
                      cache_hits |-> cache_hits, cache_misses |-> cache_misses]
    IN  IF ~force_regenerate /\ fault = [at |-> idx, call |-> "check_cache"]
        THEN failed("OperationalError")
        ELSE IF ~force_regenerate /\ cached.error # "none" THEN failed(cached.error)
        ELSE IF ~force_regenerate /\ cached.value # None
        THEN GenerateLoopIO(docs, idx + 1, table,
                            Append(embeddings_list, cached.value[1].data),
                            cache_hits + 1, cache_misses, force_regenerate, fault)
        ELSE IF fresh.error # "none" THEN failed(fresh.error)
        ELSE IF fault = [at |-> idx, call |-> "save_embedding"]
        THEN failed("OperationalError")
        ELSE GenerateLoopIO(docs, idx + 1,
                            save_embedding(table, doc_id, content, fresh.value[1]),
                            Append(embeddings_list, fresh.value[1].data),
                            cache_hits, cache_misses + 1, force_regenerate, fault)

\* the loop on a database that works
GenerateLoop(docs, idx, table, embeddings_list, cache_hits, cache_misses, force_regenerate) ==
  GenerateLoopIO(docs, idx, table, embeddings_list, cache_hits, cache_misses, force_regenerate, NoFault)

(***************************************************************************)
(* SearchEngine: vector search                                             *)
(***************************************************************************)
\* the score FAISS reports for a missing neighbour (-FLT_MAX)
FaissPadScore == 0 - (One * One * One)

\* np.argsort(scores): the default sort is not stable, so equal scores may
\* come out in any order; every ascending arrangement is a possible result
Argsort(scores) ==
  {p \in Permutations1(Len(scores)) :
     \A i \in 1..(Len(scores) - 1) : scores[p[i]] <= scores[p[i + 1]]}

\* the possible (scores, indices) of _search_cosine on the matrix
_search_cosine(matrix, query_embedding, top_k) ==
  LET scores == [i \in 1..Len(matrix) |-> Dot(matrix[i], query_embedding)]
  IN  {LET top_indices == SliceTo(Reverse(p), top_k)
       IN  [error   |-> "none",
            indices |-> top_indices,
            scores  |-> [i \in 1..Len(top_indices) |-> scores[top_indices[i]]]] :
       p \in Argsort(scores)}

\* the possible (scores, indices) of _search_faiss: IndexFlatIP.search
\* returns exactly top_k entries, the best first, and fills the entries
\* beyond the stored vectors with label -1; faiss_index is None until
\* _build_faiss_index has run; the wrapper asserts top_k > 0
_search_faiss(index, query_embedding, top_k) ==
  IF index = None
  THEN {[error |-> "AttributeError", indices |-> <<>>, scores |-> <<>>]}
  ELSE IF top_k <= 0
  THEN {[error |-> "AssertionError", indices |-> <<>>, scores |-> <<>>]}
  ELSE
    LET stored == index[1]
        scores == [i \in 1..Len(stored) |-> Dot(stored[i], query_embedding)]
    IN  {LET best == Reverse(p)
         IN  [error   |-> "none",
              indices |-> [i \in 1..top_k |->
                             IF i <= Len(best) THEN best[i] ELSE -1],
              scores  |-> [i \in 1..top_k |->
                             IF i <= Len(best) THEN scores[best[i]]
                             ELSE FaissPadScore]] :
         p \in Argsort(scores)}

\* self.documents[idx] for a numpy integer idx: -1 is the last document
ValidIndex(docs, idx) == idx \in 1..Len(docs) \/ (idx = -1 /\ Len(docs) > 0)
DocAt(docs, idx) == IF idx = -1 THEN docs[Len(docs)] ELSE docs[idx]

_generate_explanation(score, overlap_info, doc) ==
  [similarity |-> IF score * 10 > 7 * One * One THEN "High"
                  ELSE IF score * 10 > 5 * One * One THEN "Moderate" ELSE "Low",
   keywords   |-> IF overlap_info.overlap_count > 0
                  THEN SliceTo(overlap_info.overlapping_keywords, 5) ELSE <<>>,
   length     |-> IF doc.cleaned_length < 100 THEN "short document"
                  ELSE IF doc.cleaned_length > 500 THEN "long document" ELSE ""]

\* the result list search builds from what the vector search returned
BuildResults(docs, query, found) ==
  IF found.error # "none"
  THEN [error |-> found.error, results |-> <<>>, indices |-> <<>>]
  ELSE IF \E i \in 1..Len(found.indices) : ~ValidIndex(docs, found.indices[i])
  THEN [error |-> "IndexError", results |-> <<>>, indices |-> found.indices]
  ELSE
    [error   |-> "none",
     indices |-> found.indices,
     results |->
       [i \in 1..Len(found.indices) |->
          LET doc == DocAt(docs, found.indices[i])
              overlap_info == compute_overlap(extract_keywords(query, 3),
                                              extract_keywords(doc.content, 3))
          IN  [rank            |-> i,
               doc_id          |-> doc.doc_id,
               filename        |-> doc.filename,
               score           |-> found.scores[i],
               preview         |-> get_text_preview(doc.content, 150),
               doc_length      |-> doc.cleaned_length,
               keywords_overlap |-> overlap_info.overlapping_keywords,
               overlap_count   |-> overlap_info.overlap_count,
               overlap_ratio   |-> overlap_info.overlap_ratio,
               explanation     |-> _generate_explanation(found.scores[i],
                                                         overlap_info, doc)]]]

\* every outcome search(query, top_k) can have in the given engine state
search(docs, matrix, index, faiss, query, top_k) ==
  IF matrix = None
  THEN {[error |-> "NotReady", results |-> <<>>, indices |-> <<>>]}
  ELSE
    LET embedded == embed_text(query)
    IN  IF embedded.error # "none"
        THEN {[error |-> embedded.error, results |-> <<>>, indices |-> <<>>]}
        ELSE
          LET query_embedding == normalize_embeddings(<<embedded.value[1].data>>)[1]
              found == IF faiss
                       THEN _search_faiss(index, query_embedding, top_k)
                       ELSE _search_cosine(matrix[1], query_embedding, top_k)
          IN  {BuildResults(docs, query, f) : f \in found}

\* what load_text_files can return
LoadableDocuments == {load_text_files(listing) : listing \in Listings}

(***************************************************************************)
(* State machine                                                           *)
(***************************************************************************)
DocIds == {"x", "y"}
Texts == {<<"a">>, <<"b">>}
Queries == {<<>>, <<" ">>, <<"A">>}
TopKs == (0 - 1)..MaxTopK

\* the arrays callers hand to save_embedding
Vectors == {[i \in 1..n |-> i] : n \in 1..MaxVecLen} \cup {<<2>>}
Arrays == {[dtype |-> w, data |-> d] : w \in ItemSizes, d \in Vectors}

\* the callers of the cache manager that run concurrently
Threads == {"t1", "t2"}

\* a caller that is in no call of the cache manager; inside a call a caller
\* holds its position, its doc_id and text, and the row it is about to
\* write (save_embedding) or has fetched (check_cache)
Idle == [pc |-> "idle", doc_id |-> "", text |-> <<>>, row |-> None]

\* a constructor that takes the caller's use_faiss as it is
UseFaiss_mut(use_faiss_arg, FAISS_AVAILABLE) == use_faiss_arg

\* self.use_faiss = use_faiss and FAISS_AVAILABLE, where FAISS_AVAILABLE
\* tells whether "import faiss" succeeded
UseFaiss(use_faiss_arg, FAISS_AVAILABLE) == use_faiss_arg /\ FAISS_AVAILABLE

\* SearchEngine.__init__ and CacheManager.__init__ on a new database, for
\* either value of the use_faiss argument, with or without FAISS installed
Init ==
  /\ cache = {}
  /\ use_faiss \in {UseFaiss(use_faiss_arg, FAISS_AVAILABLE) :
                      use_faiss_arg \in BOOLEAN, FAISS_AVAILABLE \in BOOLEAN}
  /\ documents = <<>>
  /\ doc_id_to_idx = <<>>
  /\ embeddings = None
  /\ faiss_index = None
  /\ index_built = FALSE
  /\ last = Call("init", <<>>, "none", <<>>)
  /\ search_engine = None
  /\ threads = [t \in Threads |-> Idle]

SaveEmbedding ==
  \E doc_id \in DocIds, text \in Texts, embedding \in Arrays :
    /\ cache' = save_embedding(cache, doc_id, text, embedding)
    /\ last' = Call("save_embedding",
                    [doc_id |-> doc_id, text |-> text, embedding |-> embedding],
                    "none", <<>>)
    /\ UNCHANGED <<engine_vars, aux_vars>>

CheckCache ==
  \E doc_id \in DocIds, text \in Texts, embedding_dim \in 1..(MaxVecLen + 1) :
    /\ last' = Call("check_cache",
                    [doc_id |-> doc_id, text |-> text, embedding_dim |-> embedding_dim],
                    check_cache(cache, doc_id, text, embedding_dim).error,
                    check_cache(cache, doc_id, text, embedding_dim).value)
    /\ UNCHANGED <<cache, engine_vars, aux_vars>>

DeleteCacheEntry ==
  \E doc_id \in DocIds :
    /\ cache' = delete_cache_entry(cache, doc_id)
    /\ last' = Call("delete_cache_entry", [doc_id |-> doc_id], "none", <<>>)
    /\ UNCHANGED <<engine_vars, aux_vars>>

ClearCache ==
  /\ cache' = clear_cache(cache)
  /\ last' = Call("clear_cache", <<>>, "none", <<>>)
  /\ UNCHANGED <<engine_vars, aux_vars>>

LoadDocuments ==
  \E loaded \in LoadableDocuments :
    /\ documents' = loaded
    /\ doc_id_to_idx' =
         IF Len(documents') = 0 THEN doc_id_to_idx
         ELSE [d \in {documents'[i].doc_id : i \in 1..Len(documents')} |->
                 CHOOSE i \in 1..Len(documents') :
                   /\ documents'[i].doc_id = d
                   /\ \A j \in 1..Len(documents') :
                        documents'[j].doc_id = d => j <= i]
    /\ last' = Call("load_documents", <<>>, "none", Len(documents'))
    /\ UNCHANGED <<cache, use_faiss, embeddings, faiss_index, index_built,
                   aux_vars>>

\* generate_embeddings without the test for an empty document list
GenerateEmbeddings_mut ==
  \E force_regenerate \in BOOLEAN :
    LET run == GenerateLoop(documents, 1, cache, <<>>, 0, 0, force_regenerate)
        args == [force_regenerate |-> force_regenerate]
    IN  /\ cache' = run.table
        /\ embeddings' = IF run.error = "none"
                         THEN Some(run.embeddings_list) ELSE embeddings
        /\ last' = Call("generate_embeddings", args, run.error,
                        [cache_hits |-> run.cache_hits,
                         cache_misses |-> run.cache_misses])
        /\ UNCHANGED <<use_faiss, documents, doc_id_to_idx,
                       faiss_index, index_built, aux_vars>>

GenerateEmbeddings ==
  \E force_regenerate \in BOOLEAN :
    LET run == GenerateLoop(documents, 1, cache, <<>>, 0, 0, force_regenerate)
        args == [force_regenerate |-> force_regenerate]
    IN  IF Len(documents) = 0
        THEN /\ last' = Call("generate_embeddings", args, "NoDocuments", <<>>)
             /\ UNCHANGED <<cache, engine_vars, aux_vars>>
        ELSE /\ cache' = run.table
             /\ embeddings' = IF run.error = "none"
                              THEN Some(run.embeddings_list) ELSE embeddings
             /\ last' = Call("generate_embeddings", args, run.error,
                             [cache_hits |-> run.cache_hits,
                              cache_misses |-> run.cache_misses])
             /\ UNCHANGED <<use_faiss, documents, doc_id_to_idx,
                            faiss_index, index_built, aux_vars>>

BuildVectorIndex ==
  IF embeddings = None
  THEN /\ last' = Call("build_vector_index", <<>>, "NoEmbeddings", <<>>)
       /\ UNCHANGED <<cache, engine_vars, aux_vars>>
  ELSE /\ IF use_faiss
          THEN /\ faiss_index' = Some(normalize_embeddings(embeddings[1]))
               /\ UNCHANGED embeddings
          ELSE /\ embeddings' = Some(normalize_embeddings(embeddings[1]))
               /\ UNCHANGED faiss_index
       /\ index_built' = TRUE
       /\ last' = Call("build_vector_index", <<>>, "none", <<>>)
       /\ UNCHANGED <<cache, use_faiss, documents, doc_id_to_idx, aux_vars>>

\* a search that normalises the stored matrix when it finds it
Search_mut ==
  \E query \in Queries, top_k \in TopKs :
    \E out \in search(documents, embeddings, faiss_index, use_faiss, query, top_k) :
      /\ last' = Call("search", [query |-> query, top_k |-> top_k], out.error,
                      [results |-> out.results, indices |-> out.indices])
      /\ embeddings' = IF embeddings = None THEN embeddings
                       ELSE Some(normalize_embeddings(embeddings[1]))
      /\ UNCHANGED <<cache, use_faiss, documents, doc_id_to_idx, faiss_index,
                     index_built, aux_vars>>

Search ==
  \E query \in Queries, top_k \in TopKs :
    \E out \in search(documents, embeddings, faiss_index, use_faiss, query, top_k) :
      /\ last' = Call("search", [query |-> query, top_k |-> top_k], out.error,
                      [results |-> out.results, indices |-> out.indices])
      /\ UNCHANGED <<cache, engine_vars, aux_vars>>

\* the outcome of get_stats()
get_stats(docs, matrix, faiss, table) ==
  [total_documents      |-> Len(docs),
   embeddings_generated |-> matrix # None,
   embedding_dimension  |-> get_embedding_dimension,
   search_method        |-> IF faiss THEN "FAISS" ELSE "Cosine Similarity",
   cache_stats          |-> get_cache_stats(table),
   embeddings_shape     |-> IF matrix # None
                            THEN Some(<<Len(matrix[1]), Len(matrix[1][1])>>)
                            ELSE None]

GetStats ==
  /\ last' = Call("get_stats", <<>>, "none",
                  get_stats(documents, embeddings, use_faiss, cache))
  /\ UNCHANGED <<cache, engine_vars, aux_vars>>

GetCacheStats ==
  /\ last' = Call("get_cache_stats", <<>>, "none", get_cache_stats(cache))
  /\ UNCHANGED <<cache, engine_vars, aux_vars>>

GetAllCachedEmbeddings ==
  /\ last' = Call("get_all_cached_embeddings", <<>>, "none",
                  get_all_cached_embeddings(cache))
  /\ UNCHANGED <<cache, engine_vars, aux_vars>>

\* CacheManager(cache_db_path) on the database that already exists
CacheManagerInit ==
  /\ cache' = _init_database(cache)
  /\ last' = Call("CacheManager", <<>>, "none", <<>>)
  /\ UNCHANGED <<engine_vars, aux_vars>>

\* the search engine, its cache written through generate_embeddings only
Next ==
  \/ LoadDocuments
  \/ GenerateEmbeddings
  \/ BuildVectorIndex
  \/ Search
  \/ GetStats
  \/ CacheManagerInit

Spec == Init /\ [][Next]_vars

\* generate_embeddings on a database that may fail at one of its calls
GenerateEmbeddingsIO ==
  \E force_regenerate \in BOOLEAN, fault \in Faults :
    LET run == GenerateLoopIO(documents, 1, cache, <<>>, 0, 0, force_regenerate, fault)
        args == [force_regenerate |-> force_regenerate, fault |-> fault]
    IN  IF Len(documents) = 0
        THEN /\ last' = Call("generate_embeddings", args, "NoDocuments", <<>>)
             /\ UNCHANGED <<cache, engine_vars, aux_vars>>
        ELSE /\ cache' = run.table
             /\ embeddings' = IF run.error = "none"
                              THEN Some(run.embeddings_list) ELSE embeddings
             /\ last' = Call("generate_embeddings", args, run.error,
                             [cache_hits |-> run.cache_hits,
                              cache_misses |-> run.cache_misses])
             /\ UNCHANGED <<use_faiss, documents, doc_id_to_idx,
                            faiss_index, index_built, aux_vars>>

\* the engine's initialisation calls on a database that may fail
FaultNext ==
  \/ LoadDocuments
  \/ GenerateEmbeddingsIO
  \/ BuildVectorIndex

FaultSpec == Init /\ [][FaultNext]_vars

\* SearchEngine(use_faiss=True) in a process where "import faiss" failed
FallbackInit ==
  /\ Init
  /\ use_faiss = UseFaiss(TRUE, FALSE)

\* the search engine constructed with use_faiss=True without FAISS installed
FallbackSpec == FallbackInit /\ [][Next]_vars

\* the cache manager on its own, called with arbitrary arrays
CacheNext ==
  \/ SaveEmbedding
  \/ CheckCache
  \/ DeleteCacheEntry
  \/ ClearCache
  \/ GetCacheStats
  \/ GetAllCachedEmbeddings

CacheSpec == Init /\ [][CacheNext]_vars

(***************************************************************************)
(* CacheManager called by concurrent callers.  Every call opens its own    *)
(* connection.  SQLite lets one connection at a time hold a write          *)
(* transaction, shows other connections only committed rows, and installs  *)
(* the rows of a transaction at its commit as one step.                    *)
(***************************************************************************)
\* a commit that overwrites the embedding of an existing row and leaves its
\* hash for a second statement
Commit_mut(table, row) ==
  IF \E r \in table : r.doc_id = row.doc_id
  THEN {r \in table : r.doc_id # row.doc_id}
         \cup {[doc_id |-> row.doc_id, embedding |-> row.embedding, hash |-> r.hash] :
                 r \in {q \in table : q.doc_id = row.doc_id}}
  ELSE table \cup {row}

\* conn.commit() of save_embedding: the one INSERT OR REPLACE of the
\* transaction becomes visible, whole
Commit(table, row) == InsertOrReplace(table, row)

\* a connection is inside a write transaction
WriteLocked == \E t \in Threads : threads[t].pc = "save_commit"

\* save_embedding up to the connect: hash and bytes are computed
SaveBegin ==
  \E t \in Threads, doc_id \in DocIds, text \in Texts :
    /\ threads[t].pc = "idle"
    /\ threads' = [threads EXCEPT ![t] =
         [pc |-> "save_execute", doc_id |-> doc_id, text |-> text,
          row |-> Some([doc_id    |-> doc_id,
                        embedding |-> tobytes(embed_text(text).value[1]),
                        hash      |-> compute_hash(text)])]]
    /\ UNCHANGED <<cache, engine_vars, last, search_engine>>

\* cursor.execute(INSERT OR REPLACE): opens the write transaction; it waits
\* while another connection is inside one
SaveExecute ==
  \E t \in Threads :
    /\ threads[t].pc = "save_execute"
    /\ ~WriteLocked
    /\ threads' = [threads EXCEPT ![t].pc = "save_commit"]
    /\ UNCHANGED <<cache, engine_vars, last, search_engine>>

\* cursor.execute gives up waiting (sqlite3's timeout) and raises
\* OperationalError: database is locked
SaveBusy ==
  \E t \in Threads :
    /\ threads[t].pc = "save_execute"
    /\ WriteLocked
    /\ threads' = [threads EXCEPT ![t] = Idle]
    /\ last' = Call("save_embedding",
                    [doc_id |-> threads[t].doc_id, text |-> threads[t].text,
                     embedding |-> embed_text(threads[t].text).value[1]],
                    "OperationalError", <<>>)
    /\ UNCHANGED <<cache, engine_vars, search_engine>>

\* conn.commit(); conn.close(); return
SaveCommit ==
  \E t \in Threads :
    /\ threads[t].pc = "save_commit"
    /\ cache' = Commit(cache, threads[t].row[1])
    /\ threads' = [threads EXCEPT ![t] = Idle]
    /\ last' = Call("save_embedding",
                    [doc_id |-> threads[t].doc_id, text |-> threads[t].text,
                     embedding |-> embed_text(threads[t].text).value[1]],
                    "none", <<>>)
    /\ UNCHANGED <<engine_vars, search_engine>>

\* check_cache up to the connect: the hash of the text is computed
CheckBegin ==
  \E t \in Threads, doc_id \in DocIds, text \in Texts :
    /\ threads[t].pc = "idle"
    /\ threads' = [threads EXCEPT ![t] =
         [pc |-> "check_select", doc_id |-> doc_id, text |-> text, row |-> None]]
    /\ UNCHANGED <<cache, engine_vars, last, search_engine>>

\* SELECT ... WHERE doc_id = ?; fetchone(); conn.close(): the committed row
CheckSelect ==
  \E t \in Threads :
    /\ threads[t].pc = "check_select"
    /\ threads' = [threads EXCEPT
         ![t].pc = "check_return",
         ![t].row = IF \E r \in cache : r.doc_id = threads[t].doc_id
                    THEN Some(CHOOSE r \in cache : r.doc_id = threads[t].doc_id)
                    ELSE None]
    /\ UNCHANGED <<cache, engine_vars, last, search_engine>>

\* the rest of check_cache, on the fetched row
CheckReturn ==
  \E t \in Threads :
    LET fetched == IF threads[t].row = None THEN {} ELSE {threads[t].row[1]}
        out == check_cache(fetched, threads[t].doc_id, threads[t].text,
                           get_embedding_dimension)
    IN  /\ threads[t].pc = "check_return"
        /\ threads' = [threads EXCEPT ![t] = Idle]
        /\ last' = Call("check_cache",
                        [doc_id |-> threads[t].doc_id, text |-> threads[t].text,
                         embedding_dim |-> get_embedding_dimension],
                        out.error, out.value)
        /\ UNCHANGED <<cache, engine_vars, search_engine>>

ConcNext ==
  \/ SaveBegin
  \/ SaveExecute
  \/ SaveBusy
  \/ SaveCommit
  \/ CheckBegin
  \/ CheckSelect
  \/ CheckReturn

ConcSpec == Init /\ [][ConcNext]_vars

(***************************************************************************)
(* api.py: POST /search                                                    *)
(***************************************************************************)
\* SearchRequest.top_k: Field(5, ge=1, le=50)
MaxRequestTopK == 50

\* FastAPI validates the request body against SearchRequest before the
\* handler runs and answers 422 when a field constraint fails
ValidRequest(query, top_k) ==
  /\ Len(query) >= 1
  /\ top_k >= 1
  /\ top_k <= MaxRequestTopK

\* every response POST /search can give: its status code and result list
search_documents(engine, docs, matrix, index, faiss, query, top_k) ==
  IF ~ValidRequest(query, top_k)
  THEN {[status |-> 422, results |-> <<>>]}
  ELSE IF engine = None
  THEN {[status |-> 503, results |-> <<>>]}
  ELSE IF strip(query) = <<>>
  THEN {[status |-> 400, results |-> <<>>]}
  ELSE {IF out.error # "none"
        THEN [status |-> 500, results |-> <<>>]
        ELSE [status |-> 200, results |-> out.results] :
        out \in search(docs, matrix, index, faiss, query, top_k)}

RequestTopKs == (0..MaxTopK) \cup {MaxRequestTopK + 1}

SetSearchEngine ==
  /\ search_engine' = Some("engine")
  /\ last' = Call("set_search_engine", <<>>, "none", <<>>)
  /\ UNCHANGED <<cache, engine_vars, threads>>

SearchDocuments ==
  \E query \in Queries, top_k \in RequestTopKs :
    \E response \in search_documents(search_engine, documents, embeddings,
                                     faiss_index, use_faiss, query, top_k) :
      /\ last' = Call("search_documents", [query |-> query, top_k |-> top_k],
                      "none", response)
      /\ UNCHANGED <<cache, engine_vars, aux_vars>>

\* the API in front of the engine that main.py initialises
ApiNext ==
  \/ LoadDocuments
  \/ GenerateEmbeddings
  \/ BuildVectorIndex
  \/ SetSearchEngine
  \/ SearchDocuments

ApiSpec == Init /\ [][ApiNext]_vars

\* the keyword lists callers hand to compute_overlap
Words == {<<"a">>, <<"a", "b">>, <<"b">>}
KeywordLists == UNION {[1..n -> Words] : n \in 0..MaxKeywords}

ComputeOverlap ==
  \E query_keywords \in KeywordLists, doc_keywords \in KeywordLists :
    /\ last' = Call("compute_overlap",
                    [query_keywords |-> query_keywords,
                     doc_keywords |-> doc_keywords],
                    "none", compute_overlap(query_keywords, doc_keywords))
    /\ UNCHANGED <<cache, engine_vars, aux_vars>>

\* compute_overlap on its own, called with arbitrary keyword lists
OverlapSpec == Init /\ [][ComputeOverlap]_vars

\* the search engine together with the maintenance operations of its cache
MaintNext ==
  \/ Next
  \/ DeleteCacheEntry
  \/ ClearCache
  \/ GetCacheStats

MaintSpec == Init /\ [][MaintNext]_vars

\* the rows of the matrices callers hand to normalize_embeddings: vectors
\* whose L2 normalisation is exact in the fixed-point representation, and
\* the all-zero vector
Rows ==
  {<<0, 0>>, <<3, 4>>, <<4, 3>>, <<8, 6>>, <<6, 8>>,
   <<5, 0>>, <<0, 5>>, <<3, 0>>, <<0, 4>>, <<-3, 4>>}
Matrices == UNION {[1..n -> Rows] : n \in 0..MaxFiles}

NormalizeEmbeddings ==
  \E matrix \in Matrices :
    /\ last' = Call("normalize_embeddings", [embeddings |-> matrix], "none",
                    normalize_embeddings(matrix))
    /\ UNCHANGED <<cache, engine_vars, aux_vars>>

\* normalize_embeddings on its own, called with arbitrary matrices
NormalizeSpec == Init /\ [][NormalizeEmbeddings]_vars

(***************************************************************************)
(* Helpers of the properties                                               *)
(***************************************************************************)
SearchCalled == last.op = "search"
Results == last.result.results
Indices == last.result.indices

\* the vector the embedder produces for a document
EmbeddingOf(doc) == embed_text(doc.content).value[1].data
Embeddable(doc) == embed_text(doc.content).error = "none"

\* the engine went through load_documents, generate_embeddings and
\* build_vector_index for the documents it holds
Searchable ==
  /\ index_built
  /\ documents # <<>>
  /\ embeddings # None
  /\ Len(embeddings[1]) = Len(documents)
  /\ \A i \in 1..Len(documents) : Embeddable(documents[i])
  /\ LET raw == [i \in 1..Len(documents) |-> EmbeddingOf(documents[i])]
     IN  IF use_faiss
         THEN embeddings[1] = raw /\ faiss_index = Some(normalize_embeddings(raw))
         ELSE embeddings[1] = normalize_embeddings(raw)

\* the items a caller put into a stored blob, whatever their item size
StoredVector(blob) ==
  LET firsts == SelectSeq(blob, LAMBDA h : h[3] = 1)
  IN  [i \in 1..Len(firsts) |-> firsts[i][1]]

IsBlank(query) == strip(query) = <<>>

(***************************************************************************)
(* Properties                                                              *)
(***************************************************************************)
\* C1: as long as build_vector_index has never completed (engine Empty,
\* DocumentsLoaded or EmbeddingsReady), a search with a valid query and
\* top_k fails (with the not-ready error; any raised error is accepted
\* here) and returns no results, under either strategy.
C1_SearchBeforeIndexBuiltIsNotReady ==
  (/\ SearchCalled
   /\ ~index_built
   /\ ~IsBlank(last.args.query)
   /\ last.args.top_k >= 1) =>
    (last.error # "none" /\ Results = <<>>)

\* C2: whenever embeddings are ready, the matrix has one row per loaded
\* document and row i is the embedding of documents[i] (as produced, or
\* L2-normalised by the cosine strategy's index build).
C2_MatrixAlignedWithDocuments ==
  embeddings # None =>
    /\ Len(embeddings[1]) = Len(documents)
    /\ \A i \in 1..Len(documents) :
         /\ Embeddable(documents[i])
         /\ embeddings[1][i] \in
              {EmbeddingOf(documents[i]),
               normalize_embeddings(<<EmbeddingOf(documents[i])>>)[1]}

\* C3: check_cache returns the stored vector exactly when a record exists
\* for doc_id, its hash is the hash of the content and the stored vector has
\* the expected length; otherwise it returns a miss; it never raises.
C3_CheckCacheHitIffValid ==
  last.op = "check_cache" =>
    LET valid == {r \in cache :
                    /\ r.doc_id = last.args.doc_id
                    /\ r.hash = compute_hash(last.args.text)
                    /\ Len(StoredVector(r.embedding)) = last.args.embedding_dim}
    IN  /\ last.error = "none"
        /\ (last.result # None) <=> (valid # {})
        /\ \A r \in valid : last.result = Some([dtype |-> 4,
                                                data |-> StoredVector(r.embedding)])

\* C4: right after save_embedding(doc_id, text, v), check_cache(doc_id, text,
\* len(v)) is a hit whose vector equals v element by element.
C4_SaveThenCheckRoundTrip ==
  last.op = "save_embedding" =>
    LET got == check_cache(cache, last.args.doc_id, last.args.text,
                           Len(last.args.embedding.data))
    IN  /\ got.error = "none"
        /\ got.value # None
        /\ got.value[1].data = last.args.embedding.data

\* C5: the cache holds at most one record per doc_id, and after
\* save_embedding the record of that doc_id is exactly the hash and the
\* bytes of that call (upsert, last write wins, whole record replaced).
C5_UpsertLastWriteWins ==
  /\ \A r1, r2 \in cache : r1.doc_id = r2.doc_id => r1 = r2
  /\ last.op = "save_embedding" =>
       {r \in cache : r.doc_id = last.args.doc_id} =
          {[doc_id    |-> last.args.doc_id,
            embedding |-> tobytes(last.args.embedding),
            hash      |-> compute_hash(last.args.text)]}

\* C5 witness: a save has just been made and every doc_id has been saved
C5_Witness ==
  /\ last.op = "save_embedding"
  /\ {r.doc_id : r \in cache} = DocIds
  /\ \E r \in cache : r.doc_id = last.args.doc_id /\ r.hash = compute_hash(<<"b">>)

\* C6: after generate_embeddings(force_regenerate=False) has completed, a
\* second such call has only cache hits, embeds and writes nothing, and
\* produces the same matrix.
C6_GenerateTwiceIsIdempotent ==
  (/\ last.op = "generate_embeddings"
   /\ last.error = "none"
   /\ ~last.args.force_regenerate) =>
    LET again == GenerateLoop(documents, 1, cache, <<>>, 0, 0, FALSE)
    IN  /\ again.error = "none"
        /\ again.cache_misses = 0
        /\ again.cache_hits = Len(documents)
        /\ again.table = cache
        /\ again.embeddings_list = embeddings[1]

\* C7: on a searchable engine with n documents, a search with top_k > n
\* returns exactly n results, one per document, by descending score.
C7_TopKBeyondCountReturnsEveryDocumentOnce ==
  (/\ Searchable
   /\ SearchCalled
   /\ last.error = "none"
   /\ last.args.top_k > Len(documents)) =>
    /\ Len(Results) = Len(documents)
    /\ {Indices[i] : i \in 1..Len(Indices)} = 1..Len(documents)
    /\ \A i \in 1..(Len(Results) - 1) : Results[i].score >= Results[i + 1].score

\* C8: search rejects every top_k <= 0 with an error instead of returning
\* a result list.
C8_NonPositiveTopKIsRejected ==
  (/\ Searchable
   /\ SearchCalled
   /\ ~IsBlank(last.args.query)
   /\ last.args.top_k <= 0) =>
    last.error # "none"

\* C9: search fails for every query that is empty or only white space, and
\* returns no results for it.
C9_BlankQueryIsRejected ==
  (/\ Searchable
   /\ SearchCalled
   /\ last.args.top_k \in 1..Len(documents)
   /\ IsBlank(last.args.query)) =>
    (last.error # "none" /\ Results = <<>>)

\* C10: the vector search returns its hits by descending score, and of two
\* documents with equal score the one with the smaller index comes first
\* (stated for the cosine strategy, which suffices to decide it).
C10_DescendingScoreTiesByIndex ==
  (/\ Searchable
   /\ ~use_faiss
   /\ SearchCalled
   /\ last.error = "none"
   /\ last.args.top_k \in 1..Len(documents)) =>
    \A i, j \in 1..Len(Results) :
       i < j => \/ Results[i].score > Results[j].score
                \/ (Results[i].score = Results[j].score /\ Indices[i] < Indices[j])

\* the unit vectors a built index holds for the loaded documents, and the
\* unit vector search makes of a query
IndexedVectors ==
  normalize_embeddings([i \in 1..Len(documents) |-> EmbeddingOf(documents[i])])
QueryVector(query) == normalize_embeddings(<<embed_text(query).value[1].data>>)[1]

\* C11: on the same normalised document vectors, query vector and top_k
\* (top_k >= 1, scores pairwise distinct), the FAISS strategy and the cosine
\* strategy return the same sequence of document indices.
C11_StrategiesReturnSameIndices ==
  (/\ Searchable
   /\ SearchCalled
   /\ last.error = "none"
   /\ last.args.top_k >= 1
   /\ \A i, j \in 1..Len(documents) :
        i # j => Dot(IndexedVectors[i], QueryVector(last.args.query))
                   # Dot(IndexedVectors[j], QueryVector(last.args.query))) =>
    \A c \in _search_cosine(IndexedVectors, QueryVector(last.args.query),
                            last.args.top_k) :
      \A f \in _search_faiss(Some(IndexedVectors), QueryVector(last.args.query),
                             last.args.top_k) :
        /\ c.error = "none"
        /\ f.error = "none"
        /\ f.indices = c.indices

\* C12: the engine has no lock, so the calls of one caller's initialisation
\* sequence and the searches of another interleave freely, as the actions
\* of Next do.  Once an index has been built, every search that returns
\* hits scored a matrix (and index) built from the documents it reports:
\* one row per document, each the embedding of that document, normalised.
C12_SearchObservesAlignedIndex ==
  (/\ SearchCalled
   /\ last.error = "none"
   /\ Results # <<>>
   /\ index_built) => Searchable

DistinctDocIds ==
  \A i, j \in 1..Len(documents) :
     documents[i].doc_id = documents[j].doc_id => i = j

\* C13: generate_embeddings does not stop at a document the embedder
\* rejects: after the call (documents with distinct doc_ids) every document
\* the embedder accepts has a valid cache record.
C13_EmbeddingFailureDoesNotAbortBatch ==
  (/\ last.op = "generate_embeddings"
   /\ documents # <<>>
   /\ DistinctDocIds) =>
    \A i \in 1..Len(documents) :
       Embeddable(documents[i]) =>
         check_cache(cache, documents[i].doc_id, documents[i].content,
                     get_embedding_dimension).value # None

\* C14: search and get_stats are read-only: whatever the engine state and
\* the arguments, and whether the call returns or raises, the cache, the
\* document list, the doc_id index, the matrix and the built index are the
\* same after the call as before it.
C14_SearchAndGetStatsAreReadOnly ==
  [][last'.op \in {"search", "get_stats"} =>
       UNCHANGED <<cache, documents, doc_id_to_idx, embeddings, faiss_index>>]_vars

\* C14 witness: a search returned hits on a built index over a filled cache
C14_Witness ==
  /\ SearchCalled
  /\ last.error = "none"
  /\ Results # <<>>
  /\ index_built
  /\ cache # {}

\* the lifecycle state of the engine
Lifecycle ==
  IF embeddings # None
  THEN (IF index_built THEN "IndexBuilt" ELSE "EmbeddingsReady")
  ELSE (IF documents # <<>> THEN "DocumentsLoaded" ELSE "Empty")

\* the active strategy can search: FAISS holds the normalised rows of the
\* matrix, or the matrix of the cosine strategy is normalised
IndexReady ==
  /\ embeddings # None
  /\ IF use_faiss
     THEN faiss_index = Some(normalize_embeddings(embeddings[1]))
     ELSE embeddings[1] = normalize_embeddings(embeddings[1])

\* C15: generate_embeddings with no documents loaded fails, and
\* build_vector_index with no embeddings fails, both leaving the engine
\* (and the cache) as it was; a generate_embeddings that succeeds in
\* DocumentsLoaded leads to EmbeddingsReady, and a build_vector_index that
\* succeeds in EmbeddingsReady leads to IndexBuilt.
C15_LifecycleOrdering ==
  [][/\ (last'.op = "generate_embeddings" /\ documents = <<>>) =>
          (last'.error # "none" /\ UNCHANGED <<cache, engine_vars>>)
     /\ (last'.op = "build_vector_index" /\ embeddings = None) =>
          (last'.error # "none" /\ UNCHANGED <<cache, engine_vars>>)
     /\ (/\ last'.op = "generate_embeddings"
         /\ last'.error = "none"
         /\ Lifecycle = "DocumentsLoaded") => Lifecycle' = "EmbeddingsReady"
     /\ (/\ last'.op = "build_vector_index"
         /\ last'.error = "none"
         /\ Lifecycle = "EmbeddingsReady") =>
          (Lifecycle' = "IndexBuilt" /\ IndexReady')]_vars

\* C15 witness: the three steps were taken in order and the index is built
C15_Witness ==
  /\ last.op = "build_vector_index"
  /\ last.error = "none"
  /\ Lifecycle = "IndexBuilt"
  /\ Searchable

CachedDocIds(table) == {r.doc_id : r \in table}

\* C16: no operation other than clear_cache and delete_cache_entry removes
\* a cache entry: across CacheManager construction on the existing database,
\* get_cache_stats, load_documents, generate_embeddings (with its
\* check_cache hits, misses and stale-hash misses and its save_embedding),
\* build_vector_index, search and get_stats the set of cached doc_ids never
\* shrinks.
C16_CacheEntriesNeverRemovedAutomatically ==
  [][last'.op \notin {"clear_cache", "delete_cache_entry"} =>
       CachedDocIds(cache) \subseteq CachedDocIds(cache')]_vars

\* C16 witness: the cache manager was constructed again on a database that
\* holds a record of every doc_id
C16_Witness ==
  /\ last.op = "CacheManager"
  /\ CachedDocIds(cache) = DocIds

\* C17: for all keyword lists compute_overlap returns a ratio between 0 and
\* 1 (in thousandths), ratio 0 when the query has no keyword, overlap_count
\* the size of the intersection of the two keyword sets, and
\* overlapping_keywords that intersection in strictly ascending order.
C17_OverlapBoundsAndIntersection ==
  last.op = "compute_overlap" =>
    LET q  == last.args.query_keywords
        d  == last.args.doc_keywords
        kw == last.result.overlapping_keywords
        common == {w \in Words : /\ \E i \in 1..Len(q) : q[i] = w
                                 /\ \E i \in 1..Len(d) : d[i] = w}
    IN  /\ last.result.overlap_ratio >= 0
        /\ last.result.overlap_ratio <= 1000
        /\ q = <<>> => last.result.overlap_ratio = 0
        /\ last.result.overlap_count = Cardinality(common)
        /\ {kw[i] : i \in 1..Len(kw)} = common
        /\ \A i, j \in 1..Len(kw) : i < j => WordLess(kw[i], kw[j])

\* C17 witness: lists with a repeated keyword that share two keywords
C17_Witness ==
  /\ last.op = "compute_overlap"
  /\ last.args.query_keywords = <<<<"b">>, <<"a", "b">>>>
  /\ last.args.doc_keywords = <<<<"a", "b">>, <<"b">>>>
  /\ last.result.overlapping_keywords = <<<<"a", "b">>, <<"b">>>>

\* C18: with an engine installed, POST /search answers a validation
\* failure (blank query, top_k out of range) and an engine that is not ready
\* (no index built yet) with a 4xx status, and any other failure of the
\* engine with a 5xx status.
C18_ApiMapsFailuresByKind ==
  (last.op = "search_documents" /\ search_engine # None) =>
    LET query  == last.args.query
        top_k  == last.args.top_k
        status == last.result.status
        valid  == ~IsBlank(query) /\ top_k \in 1..MaxRequestTopK
    IN  /\ ~valid => status \in 400..499
        /\ (valid /\ ~index_built) => status \in 400..499
        /\ (/\ valid
            /\ index_built
            /\ \A out \in search(documents, embeddings, faiss_index, use_faiss,
                                 query, top_k) : out.error # "none") =>
             status \in 500..599

\* C19: when generate_embeddings was aborted by an error after it had
\* processed the first i >= 1 documents, the records written for those
\* documents are valid, and a later generate_embeddings without
\* force_regenerate has cache hits for them and completes with one row per
\* document.
C19_AbortedGenerationIsResumable ==
  (/\ last.op = "generate_embeddings"
   /\ last.error \notin {"none", "NoDocuments"}
   /\ last.result.cache_hits + last.result.cache_misses >= 1) =>
    LET i == last.result.cache_hits + last.result.cache_misses
        again == GenerateLoop(documents, 1, cache, <<>>, 0, 0, FALSE)
    IN  /\ \A k \in 1..i :
             check_cache(cache, documents[k].doc_id, documents[k].content,
                         get_embedding_dimension).value # None
        /\ again.error = "none"
        /\ again.cache_hits >= i
        /\ Len(again.embeddings_list) = Len(documents)

\* a record that one save_embedding call wrote: the hash and the vector of
\* one text
CompleteRow(row) ==
  \E text \in Texts :
    /\ row.hash = compute_hash(text)
    /\ row.embedding = tobytes(embed_text(text).value[1])

RowsOf(table, doc_id) == {r \in table : r.doc_id = doc_id}

\* C20: under every interleaving of concurrent save_embedding and
\* check_cache calls a reader fetches only records some writer wrote whole,
\* the table holds at most one record per doc_id and each is such a record,
\* and the record of a doc_id changes only when a save_embedding for that
\* doc_id commits, to exactly the record of that call.
C20_AtomicUpsertUnderConcurrency ==
  /\ [](/\ \A t \in Threads :
             (threads[t].pc = "check_return" /\ threads[t].row # None) =>
               /\ CompleteRow(threads[t].row[1])
               /\ threads[t].row[1].doc_id = threads[t].doc_id
        /\ \A r \in cache : CompleteRow(r)
        /\ \A r1, r2 \in cache : r1.doc_id = r2.doc_id => r1 = r2)
  /\ [][\A d \in DocIds :
          RowsOf(cache', d) # RowsOf(cache, d) =>
            \E t \in Threads :
              /\ threads[t].pc = "save_commit"
              /\ threads'[t].pc = "idle"
              /\ threads[t].doc_id = d
              /\ RowsOf(cache', d) = {threads[t].row[1]}]_vars

\* C20 witness: a reader holds the committed record of a doc_id while a
\* writer is inside a transaction that replaces it and another record is
\* in the table
C20_Witness ==
  \E t, u \in Threads :
    /\ threads[t].pc = "check_return"
    /\ threads[t].row # None
    /\ threads[u].pc = "save_commit"
    /\ threads[u].doc_id = threads[t].doc_id
    /\ threads[u].row # threads[t].row
    /\ CachedDocIds(cache) = DocIds

\* C21: for every input matrix, one with an all-zero row included, every row
\* of the matrix normalize_embeddings returns (the rows build_vector_index
\* adds to the FAISS index or stores as the matrix of the cosine strategy,
\* which are the vectors search scores against) has L2 norm 1.
C21_IndexedVectorsHaveUnitNorm ==
  last.op = "normalize_embeddings" =>
    \A i \in 1..Len(last.result) : Norm(last.result[i]) = One

\* save_embedding called once for each doc_id of a set
RECURSIVE SaveAll(_, _, _, _)
SaveAll(table, ids, text, embedding) ==
  IF ids = {} THEN table
  ELSE LET d == CHOOSE x \in ids : TRUE
       IN  SaveAll(save_embedding(table, d, text, embedding), ids \ {d},
                   text, embedding)

\* C22: right after a CacheManager has been constructed on a database path,
\* calling save_embedding through it for n >= 1 distinct doc_ids makes
\* get_cache_stats report total_cached_documents = n and
\* get_all_cached_embeddings return exactly n entries.
C22_StatsCountTheSavedDocIds ==
  last.op = "CacheManager" =>
    \A ids \in (SUBSET DocIds) \ {{}} :
      \A text \in Texts, embedding \in Arrays :
        LET table == SaveAll(cache, ids, text, embedding)
        IN  /\ get_cache_stats(table).total_cached_documents = Cardinality(ids)
            /\ Cardinality(DOMAIN get_all_cached_embeddings(table)) = Cardinality(ids)

\* C23: when the engine holds no documents, a search with a valid query and
\* a valid top_k returns an empty result list and raises nothing, in every
\* state the engine reaches after an index was built (load_documents re-run
\* on a directory that has become empty included).
C23_EmptyDocumentSetGivesEmptyResult ==
  (/\ SearchCalled
   /\ index_built
   /\ documents = <<>>
   /\ ~IsBlank(last.args.query)
   /\ last.args.top_k >= 1) =>
    (last.error = "none" /\ Results = <<>>)

\* C24: once an index has been built, after every generate_embeddings and
\* every build_vector_index that completes, the vectors search scores
\* against (the FAISS index, or the matrix of the cosine strategy) are the
\* normalised rows of the current embedding matrix, not those of an earlier
\* one and not rows that were never normalised.
C24_RerunRebuildsDownstreamState ==
  (/\ index_built
   /\ last.op \in {"generate_embeddings", "build_vector_index"}
   /\ last.error = "none") => IndexReady

\* the documents check_cache misses for, on a given table
MissedDocuments(table) ==
  {i \in 1..Len(documents) :
     check_cache(table, documents[i].doc_id, documents[i].content,
                 get_embedding_dimension).value = None}

\* C25: in every generate_embeddings that completes, hits + misses is the
\* number of documents; with force_regenerate every document is embedded and
\* written (no hit); without it the documents embedded and written are those
\* check_cache misses for (counted on the table before the call when the
\* doc_ids are distinct); and afterwards the doc_id of every document has a
\* cache record whose hash is the hash of the content of that document.
C25_CacheOrRecomputePerDocument ==
  [][(last'.op = "generate_embeddings" /\ last'.error = "none") =>
       /\ last'.result.cache_hits + last'.result.cache_misses = Len(documents)
       /\ last'.args.force_regenerate => last'.result.cache_hits = 0
       /\ (~last'.args.force_regenerate /\ DistinctDocIds) =>
            last'.result.cache_misses = Cardinality(MissedDocuments(cache))
       /\ \A i \in 1..Len(documents) :
            \E r \in cache' : /\ r.doc_id = documents[i].doc_id
                              /\ r.hash = compute_hash(documents[i].content)]_vars

\* C26: with FAISS unavailable, an engine constructed with use_faiss=True
\* uses the cosine strategy throughout: no FAISS index is ever built, every
\* build_vector_index that completes stores the normalised form of every
\* row of the matrix, get_stats reports "Cosine Similarity", every search
\* outcome is one of the cosine strategy, and on a searchable engine a
\* search with top_k >= the number of documents returns every document.
C26_FallbackToCosineIsObservableAndLossless ==
  /\ [](/\ ~use_faiss
        /\ faiss_index = None
        /\ last.op = "get_stats" => last.result.search_method = "Cosine Similarity"
        /\ (SearchCalled /\ last.error = "none") =>
             \E out \in search(documents, embeddings, None, FALSE,
                               last.args.query, last.args.top_k) :
               out.results = Results /\ out.indices = Indices
        /\ (/\ SearchCalled
            /\ last.error = "none"
            /\ Searchable
            /\ last.args.top_k >= Len(documents)) =>
             {Indices[i] : i \in 1..Len(Indices)} = 1..Len(documents))
  /\ [][(last'.op = "build_vector_index" /\ last'.error = "none") =>
          embeddings' = Some(normalize_embeddings(embeddings[1]))]_vars

\* C26 witness: under the fallback a search on a built index over two
\* documents returned both of them
C26_Witness ==
  /\ ~use_faiss
  /\ SearchCalled
  /\ last.error = "none"
  /\ Searchable
  /\ Len(documents) = 2
  /\ {Indices[i] : i \in 1..Len(Indices)} = {1, 2}

\* C27: a generate_embeddings that raises (the embedder rejected document
\* i, or the database failed at it) leaves the documents, the matrix and
\* the built index as they were, and changes no cache record other than
\* those of the documents before i; a generate_embeddings that returns did
\* exactly what it does with no failure at all (nothing skipped, replaced
\* or retried behind the caller's back).
C27_GenerationFailurePropagates ==
  [][/\ (last'.op = "generate_embeddings" /\ last'.error # "none") =>
          /\ UNCHANGED engine_vars
          /\ IF documents = <<>> THEN UNCHANGED cache
             ELSE LET i == last'.result.cache_hits + last'.result.cache_misses
                  IN  \A r \in (cache \ cache') \cup (cache' \ cache) :
                         \E k \in 1..i : documents[k].doc_id = r.doc_id
     /\ (last'.op = "generate_embeddings" /\ last'.error = "none") =>
          LET run == GenerateLoop(documents, 1, cache, <<>>, 0, 0,
                                  last'.args.force_regenerate)
          IN  /\ run.error = "none"
              /\ cache' = run.table
              /\ embeddings' = Some(run.embeddings_list)]_vars

\* C27 witness: with an index built over two documents, a forced
\* generate_embeddings wrote the record of the first document and then
\* failed at the save of the second
C27_Witness ==
  /\ last.op = "generate_embeddings"
  /\ last.error = "OperationalError"
  /\ last.args.fault = [at |-> 2, call |-> "save_embedding"]
  /\ last.result.cache_misses = 1
  /\ index_built
  /\ IndexReady
  /\ Len(documents) = 2

\* C28: after every load_documents (one that finds no file and one that
\* finds two files of the same stem included) the keys of doc_id_to_idx are
\* exactly the doc_ids of the loaded documents, and each key d maps to a
\* position of the document list that holds a document of doc_id d.
C28_DocIdIndexConsistent ==
  /\ DOMAIN doc_id_to_idx = {documents[i].doc_id : i \in 1..Len(documents)}
  /\ \A d \in DOMAIN doc_id_to_idx :
       /\ doc_id_to_idx[d] \in 1..Len(documents)
       /\ documents[doc_id_to_idx[d]].doc_id = d

\* the position of the document list that self.documents[idx] reads
PositionOf(idx) == IF idx = -1 THEN Len(documents) ELSE idx

\* C29: every result list search returns on a searchable engine has one
\* entry per index the vector search returned, with ranks 1, 2, ..., m in
\* list order, each entry carrying the doc_id of the document at the index
\* returned for its position, and the entries are pairwise distinct
\* documents of the loaded document list.
C29_ResultsAreDistinctRankedDocuments ==
  (Searchable /\ SearchCalled /\ last.error = "none") =>
    /\ Len(Results) = Len(Indices)
    /\ \A i \in 1..Len(Results) :
         /\ Results[i].rank = i
         /\ ValidIndex(documents, Indices[i])
         /\ Results[i].doc_id = DocAt(documents, Indices[i]).doc_id
    /\ \A i, j \in 1..Len(Results) :
         i # j => PositionOf(Indices[i]) # PositionOf(Indices[j])

\* C30: delete_cache_entry(d) returns without error whether or not d has a
\* record, leaves no record of d and leaves every record of another doc_id
\* as it was; clear_cache leaves the cache with zero records;
\* save_embedding(d, ...) leaves every record of another doc_id as it was.
C30_MaintenanceOperationsHaveExactEffects ==
  [][/\ last'.op = "delete_cache_entry" =>
          /\ last'.error = "none"
          /\ RowsOf(cache', last'.args.doc_id) = {}
          /\ \A r \in cache \cup cache' :
               r.doc_id # last'.args.doc_id => (r \in cache <=> r \in cache')
     /\ last'.op = "clear_cache" => (last'.error = "none" /\ cache' = {})
     /\ last'.op = "save_embedding" =>
          \A r \in cache \cup cache' :
             r.doc_id # last'.args.doc_id => (r \in cache <=> r \in cache')]_vars

\* C30 witness: after a delete_cache_entry the record of the other doc_id
\* is still in the cache
C30_Witness ==
  /\ last.op = "delete_cache_entry"
  /\ CachedDocIds(cache) = DocIds \ {last.args.doc_id}

====
